---- MODULE Spec2Model ----
(***************************************************************************)
(* Model of tutorial-word-addin/src/taskpane/taskpane.js: the Office.onReady *)
(* bootstrap, the nine button handlers, the shared tryCatch wrapper, and a  *)
(* simulated Word host that executes the command batches the handlers       *)
(* queue.  Text is kept as sequences of string tokens so that ranges can be *)
(* addressed; Flat turns a token sequence into the string it spells.        *)
(***************************************************************************)
EXTENDS Integers, Sequences, FiniteSets, TLC

VARIABLES
  hostType,            \* info.host handed to the Office.onReady callback
  ready,               \* the Office.onReady callback has been invoked
  onclick,             \* button id -> bound handler name, or "null"
  sideloadMsgDisplay,  \* document.getElementById("sideload-msg").style.display
  appBodyDisplay,      \* document.getElementById("app-body").style.display
  bindCount,           \* how many times the binding block (lines 12-23) ran
  doc,                 \* host document: the body's paragraphs
  sel,                 \* host document: the current selection
  customStyles,        \* host document: names of the custom styles it defines
  doc0, sel0,          \* the document and selection at session start
  tasks,               \* one record per tryCatch(handler) invocation
  console,             \* the console.error calls made so far
  commits              \* <<task, stage>> of every successful context.sync

vars == <<hostType, ready, onclick, sideloadMsgDisplay, appBodyDisplay,
          bindCount, doc, sel, customStyles, doc0, sel0, tasks, console,
          commits>>

uiVars == <<hostType, ready, onclick, sideloadMsgDisplay, appBodyDisplay,
            bindCount>>

\* Bound: how many button activations one behaviour contains.
MaxTasks == 2

-----------------------------------------------------------------------------
(* Literals of the source *)

ParagraphLiteral ==
  "Office has several versions, including Office 2016, Microsoft 365 subscription, and Office on the web."

FontSize == 18

NewFont == [name |-> "Courier New", bold |-> TRUE, size |-> FontSize]

Buttons ==
  {"insert-paragraph", "apply-style", "apply-custom-style", "change-font",
   "insert-text-into-range", "insert-text-outside-range", "replace-text",
   "insert-image", "insert-html"}

\* Lines 12-20: which handler each button's onclick closure passes to tryCatch.
HandlerOf(b) ==
  CASE b = "insert-paragraph"          -> "insertParagraph"
    [] b = "apply-style"               -> "applyStyle"
    [] b = "apply-custom-style"        -> "applyCustomStyle"
    [] b = "change-font"               -> "changeFont"
    [] b = "insert-text-into-range"    -> "insertTextIntoRange"
    [] b = "insert-text-outside-range" -> "insertTextBeforeRange"
    [] b = "replace-text"              -> "replaceText"
    [] b = "insert-image"              -> "insertImage"
    [] b = "insert-html"               -> "insertHTML"

\* Line 158: the HTML fragment, as the paragraphs it parses to.
HtmlFragment ==
  << [text |-> "Inserted HTML.", fontName |-> "Verdana"],
     [text |-> "Another paragraph", fontName |-> "default"] >>

-----------------------------------------------------------------------------
(* The simulated host document *)

DefaultFont == [name |-> "default", bold |-> FALSE, size |-> 11]

Para(tokens) ==
  [text |-> tokens, style |-> "Normal", font |-> DefaultFont, pics |-> 0]

RECURSIVE Flat(_)
Flat(s) == IF s = <<>> THEN "" ELSE Head(s) \o Flat(Tail(s))

InsertAt(s, pos, items) ==
  SubSeq(s, 1, pos - 1) \o items \o SubSeq(s, pos, Len(s))

\* The text of range r of document d, as a string.
RangeText(d, r) == Flat(SubSeq(d[r.p].text, r.from, r.to))

NoRange == [p |-> 0, from |-> 0, to |-> 0]

Unloaded == "<not loaded>"

\* A range whose paragraph index moves when a paragraph is inserted at `at`.
ShiftRange(r, at) == IF r.p >= at THEN [r EXCEPT !.p = r.p + 1] ELSE r

(* Commands the handlers queue on a request context.  A batch is a sequence *)
(* of commands; the host runs it when context.sync() is called.  The host   *)
(* keeps, while it runs one batch, the objects the batch's proxies resolve  *)
(* to: rng (the range doc.getSelection() returned), ref (the paragraph the  *)
(* last paragraph-returning call produced) and text (a loaded range text).  *)

HostState(d, s) ==
  [doc |-> d, sel |-> s, rng |-> NoRange, ref |-> 0, text |-> Unloaded,
   ok |-> TRUE]

Failed(st) == [st EXCEPT !.ok = FALSE]

\* context.document.body.insertParagraph(text, location)
BodyInsertParagraph(st, text, loc) ==
  IF loc = "Start"
  THEN [st EXCEPT !.doc = <<Para(<<text>>)>> \o st.doc,
                  !.sel = ShiftRange(st.sel, 1),
                  !.rng = ShiftRange(st.rng, 1)]
  ELSE IF loc = "End"
  THEN [st EXCEPT !.doc = Append(st.doc, Para(<<text>>))]
  ELSE Failed(st)

\* range.insertText(text, location) on the range doc.getSelection() returned.
\* "End"/"Start" grow the range over the new text, "Replace" makes the range
\* the new text, "Before"/"After" leave the range's own content as it was.
RangeInsertText(st, text, loc) ==
  LET r == st.rng
      toks == st.doc[r.p].text
      put(pos, new) ==
        [st EXCEPT !.doc[r.p].text = InsertAt(toks, pos, <<text>>),
                   !.rng = new, !.sel = new]
  IN  IF r.p = 0 THEN Failed(st)
      ELSE CASE loc = "End"    -> put(r.to + 1, [r EXCEPT !.to = r.to + 1])
             [] loc = "Start"  -> put(r.from, [r EXCEPT !.to = r.to + 1])
             [] loc = "Before" -> put(r.from, [r EXCEPT !.from = r.from + 1,
                                                        !.to = r.to + 1])
             [] loc = "After"  -> put(r.to + 1, r)
             [] loc = "Replace" ->
                  [st EXCEPT !.doc[r.p].text =
                               SubSeq(toks, 1, r.from - 1) \o <<text>>
                                 \o SubSeq(toks, r.to + 1, Len(toks)),
                             !.rng = [r EXCEPT !.to = r.from],
                             !.sel = [r EXCEPT !.to = r.from]]
             [] OTHER -> Failed(st)

\* paragraph.insertParagraph(text, "After") on the paragraph ref names; the
\* new paragraph becomes ref.
ParagraphInsertParagraph(st, text, loc) ==
  IF st.ref = 0 \/ loc # "After" THEN Failed(st)
  ELSE [st EXCEPT !.doc = InsertAt(st.doc, st.ref + 1, <<Para(<<text>>)>>),
                  !.sel = ShiftRange(st.sel, st.ref + 1),
                  !.rng = ShiftRange(st.rng, st.ref + 1),
                  !.ref = st.ref + 1]

\* paragraph.insertHtml(html, "End"): the fragment's first paragraph flows
\* into the paragraph ref names, every further one follows it.
ParagraphInsertHtml(st, html, loc) ==
  IF st.ref = 0 \/ loc # "End" THEN Failed(st)
  ELSE LET i == st.ref
           first == html[1]
           rest == [k \in 1..(Len(html) - 1) |->
                      LET h == html[k + 1]
                      IN  [Para(<<h.text>>) EXCEPT !.font.name = h.fontName]]
           cur == st.doc[i]
           merged == [cur EXCEPT
                        !.text = IF first.text = "" THEN cur.text
                                 ELSE Append(cur.text, first.text),
                        !.font.name = first.fontName]
       IN  [st EXCEPT !.doc = InsertAt([st.doc EXCEPT ![i] = merged],
                                       i + 1, rest),
                      !.sel = IF st.sel.p > i
                              THEN [st.sel EXCEPT !.p = st.sel.p + Len(rest)]
                              ELSE st.sel,
                      !.rng = IF st.rng.p > i
                              THEN [st.rng EXCEPT !.p = st.rng.p + Len(rest)]
                              ELSE st.rng]

\* One queued command, run by the host on st.
Exec(c, st) ==
  CASE c.op = "body.insertParagraph" ->
         BodyInsertParagraph(st, c.text, c.loc)
    [] c.op = "paragraphs.getFirst" ->
         IF Len(st.doc) = 0 THEN Failed(st) ELSE [st EXCEPT !.ref = 1]
    [] c.op = "paragraphs.getLast" ->
         IF Len(st.doc) = 0 THEN Failed(st) ELSE [st EXCEPT !.ref = Len(st.doc)]
    [] c.op = "paragraph.getNext" ->
         IF st.ref = 0 \/ st.ref >= Len(st.doc) THEN Failed(st)
         ELSE [st EXCEPT !.ref = st.ref + 1]
    [] c.op = "paragraph.styleBuiltIn=" ->
         IF st.ref = 0 THEN Failed(st)
         ELSE [st EXCEPT !.doc[st.ref].style = c.value]
    [] c.op = "paragraph.style=" ->
         IF st.ref = 0 \/ c.value \notin customStyles THEN Failed(st)
         ELSE [st EXCEPT !.doc[st.ref].style = c.value]
    [] c.op = "paragraph.font.set" ->
         IF st.ref = 0 THEN Failed(st)
         ELSE [st EXCEPT !.doc[st.ref].font = c.value]
    [] c.op = "document.getSelection" -> [st EXCEPT !.rng = st.sel]
    [] c.op = "range.insertText" -> RangeInsertText(st, c.text, c.loc)
    [] c.op = "range.load(text)" ->
         IF st.rng.p = 0 THEN Failed(st)
         ELSE [st EXCEPT !.text = RangeText(st.doc, st.rng)]
    [] c.op = "body.insertInlinePictureFromBase64" ->
         IF c.loc # "End" \/ Len(st.doc) = 0 THEN Failed(st)
         ELSE [st EXCEPT !.doc[Len(st.doc)].pics = st.doc[Len(st.doc)].pics + 1]
    [] c.op = "paragraph.insertParagraph" ->
         ParagraphInsertParagraph(st, c.text, c.loc)
    [] c.op = "paragraph.insertHtml" ->
         ParagraphInsertHtml(st, c.html, c.loc)
    [] OTHER -> Failed(st)

\* The host runs the first k commands of a batch, stopping at the first one
\* that fails.
RECURSIVE RunBatch(_, _, _)
RunBatch(batch, st, k) ==
  IF k = 0 \/ batch = <<>> \/ ~st.ok THEN st
  ELSE RunBatch(Tail(batch), Exec(Head(batch), st), k - 1)

-----------------------------------------------------------------------------
(* The handlers: the command batches each one queues before a context.sync *)

\* Variant: the paragraph goes to the end of the body.
insertParagraph_AtEnd ==
  << [op |-> "body.insertParagraph", text |-> ParagraphLiteral,
      loc |-> "End"] >>

insertParagraph ==
  << [op |-> "body.insertParagraph", text |-> ParagraphLiteral,
      loc |-> "Start"] >>

applyStyle ==
  << [op |-> "paragraphs.getFirst"],
     [op |-> "paragraph.styleBuiltIn=", value |-> "IntenseReference"] >>

applyCustomStyle ==
  << [op |-> "paragraphs.getLast"],
     [op |-> "paragraph.style=", value |-> "MyCustomStyle"] >>

\* Variant: the font is set on the first paragraph (no getNext()).
changeFont_FirstParagraph ==
  << [op |-> "paragraphs.getFirst"],
     [op |-> "paragraph.font.set", value |-> NewFont] >>

changeFont ==
  << [op |-> "paragraphs.getFirst"],
     [op |-> "paragraph.getNext"],
     [op |-> "paragraph.font.set", value |-> NewFont] >>

\* Variant: the text is loaded before the insertion is queued.
insertTextIntoRange_LoadFirst ==
  << [op |-> "document.getSelection"],
     [op |-> "range.load(text)"],
     [op |-> "range.insertText", text |-> " (M365)", loc |-> "End"] >>

\* Variant: the echo paragraph is queued with the first batch, before the
\* range text has been read.
insertTextIntoRange_EchoEarly ==
  << [op |-> "document.getSelection"],
     [op |-> "range.insertText", text |-> " (M365)", loc |-> "End"],
     [op |-> "range.load(text)"],
     [op |-> "body.insertParagraph", text |-> "Original range: " \o Unloaded,
      loc |-> "End"] >>

\* Lines 82-88: up to the first await context.sync().
insertTextIntoRange ==
  << [op |-> "document.getSelection"],
     [op |-> "range.insertText", text |-> " (M365)", loc |-> "End"],
     [op |-> "range.load(text)"] >>

\* Lines 91-93: after the first sync, with originalRange.text loaded.
insertTextIntoRangeEcho(text) ==
  << [op |-> "body.insertParagraph", text |-> "Original range: " \o text,
      loc |-> "End"] >>

\* Variant: the text is inserted at the start of the range, not before it.
insertTextBeforeRange_AtStart ==
  << [op |-> "document.getSelection"],
     [op |-> "range.insertText", text |-> "Office 2019, ", loc |-> "Start"],
     [op |-> "range.load(text)"] >>

\* Lines 105-111.
insertTextBeforeRange ==
  << [op |-> "document.getSelection"],
     [op |-> "range.insertText", text |-> "Office 2019, ", loc |-> "Before"],
     [op |-> "range.load(text)"] >>

\* Lines 115-118.
insertTextBeforeRangeEcho(text) ==
  << [op |-> "body.insertParagraph",
      text |-> "Current text of original range: " \o text, loc |-> "End"] >>

replaceText ==
  << [op |-> "document.getSelection"],
     [op |-> "range.insertText", text |-> "many", loc |-> "Replace"] >>

insertImage ==
  << [op |-> "body.insertInlinePictureFromBase64", loc |-> "End"] >>

insertHTML ==
  << [op |-> "paragraphs.getLast"],
     [op |-> "paragraph.insertParagraph", text |-> "", loc |-> "After"],
     [op |-> "paragraph.insertHtml", html |-> HtmlFragment, loc |-> "End"] >>

\* What handler h has queued when it reaches its first await context.sync().
FirstBatch(h) ==
  CASE h = "insertParagraph"       -> insertParagraph
    [] h = "applyStyle"            -> applyStyle
    [] h = "applyCustomStyle"      -> applyCustomStyle
    [] h = "changeFont"            -> changeFont
    [] h = "insertTextIntoRange"   -> insertTextIntoRange
    [] h = "insertTextBeforeRange" -> insertTextBeforeRange
    [] h = "replaceText"           -> replaceText
    [] h = "insertImage"           -> insertImage
    [] h = "insertHTML"            -> insertHTML

\* What handler h queues between its first sync and its second, given the
\* range text the first sync loaded; <<>> when it has no second sync.
SecondBatch(h, text) ==
  CASE h = "insertTextIntoRange"   -> insertTextIntoRangeEcho(text)
    [] h = "insertTextBeforeRange" -> insertTextBeforeRangeEcho(text)
    [] OTHER                       -> <<>>

-----------------------------------------------------------------------------
(* Office.onReady, lines 9-25 *)

\* Variant: the host type is not examined.
HostIsWord_AnyHost(info) == TRUE

HostIsWord(info) == info = "Word"

\* Variant: the binding block runs when the script loads, without waiting
\* for the host's readiness callback.
OnReady_AtLoad ==
  /\ ~ready
  /\ bindCount = 0
  /\ onclick' = [b \in Buttons |-> HandlerOf(b)]
  /\ sideloadMsgDisplay' = "none"
  /\ appBodyDisplay' = "flex"
  /\ bindCount' = bindCount + 1
  /\ UNCHANGED <<ready, hostType, doc, sel, customStyles, doc0, sel0, tasks,
                 console, commits>>

OnReady ==
  /\ ~ready
  /\ ready' = TRUE
  /\ IF HostIsWord(hostType)
     THEN /\ onclick' = [b \in Buttons |-> HandlerOf(b)]
          /\ sideloadMsgDisplay' = "none"
          /\ appBodyDisplay' = "flex"
          /\ bindCount' = bindCount + 1
     ELSE UNCHANGED <<onclick, sideloadMsgDisplay, appBodyDisplay, bindCount>>
  /\ UNCHANGED <<hostType, doc, sel, customStyles, doc0, sel0, tasks, console,
                 commits>>

-----------------------------------------------------------------------------
(* tryCatch, lines 167-175, and the run of one handler inside it *)

\* Variant: no catch block; a rejection leaves tryCatch as an exception.
tryCatch_NoCatch(task, cons, settled) ==
  IF settled.ok
  THEN [task |-> [task EXCEPT !.pc = "returned", !.outcome = "fulfilled",
                              !.queue = <<>>],
        console |-> cons]
  ELSE [task |-> [task EXCEPT !.pc = "threw", !.outcome = "rejected",
                              !.queue = <<>>],
        console |-> cons]

\* Variant: the catch block logs and runs the callback again.
tryCatch_Retry(task, cons, settled) ==
  IF settled.ok
  THEN [task |-> [task EXCEPT !.pc = "returned", !.outcome = "fulfilled",
                              !.queue = <<>>],
        console |-> cons]
  ELSE [task |-> [task EXCEPT !.pc = "sync1", !.outcome = "pending",
                              !.queue = FirstBatch(task.handler),
                              !.text = Unloaded,
                              !.syncs = task.syncs + 1,
                              !.runs = task.runs + 1],
        console |-> Append(cons, settled.error)]

\* The callback has settled: fulfilled (settled.ok) or rejected with
\* settled.error.  tryCatch returns normally either way and logs a rejection.
tryCatch(task, cons, settled) ==
  IF settled.ok
  THEN [task |-> [task EXCEPT !.pc = "returned", !.outcome = "fulfilled",
                              !.queue = <<>>],
        console |-> cons]
  ELSE [task |-> [task EXCEPT !.pc = "returned", !.outcome = "rejected",
                              !.queue = <<>>],
        console |-> Append(cons, settled.error)]

\* A button is activated: its onclick closure calls tryCatch(handler), and the
\* handler runs up to its first await context.sync().
Click(b) ==
  /\ onclick[b] # "null"
  /\ Len(tasks) < MaxTasks
  /\ tasks' = Append(tasks,
       [button |-> b, handler |-> onclick[b], pc |-> "sync1",
        outcome |-> "pending", queue |-> FirstBatch(onclick[b]),
        text |-> Unloaded, syncs |-> 1, runs |-> 1])
  /\ UNCHANGED <<uiVars, doc, sel, customStyles, doc0, sel0, console, commits>>

Stage(task) == IF task.pc = "sync1" THEN 1 ELSE 2

InFlight(task) == task.pc \in {"sync1", "sync2"}

\* Variant: the handler builds the echo from originalRange.text as it was
\* before the sync, and never reads what the sync loaded.
Resume_ReadBeforeSync(task, cons, loaded) ==
  IF task.pc = "sync1" /\ SecondBatch(task.handler, loaded) # <<>>
  THEN [task |-> [task EXCEPT !.pc = "sync2",
                              !.queue = SecondBatch(task.handler, task.text),
                              !.syncs = task.syncs + 1],
        console |-> cons]
  ELSE tryCatch(task, cons, [ok |-> TRUE])

\* The handler after a sync resolved: it queues its next batch and syncs
\* again, or its Word.run and the handler itself fulfil.
Resume(task, cons, loaded) ==
  IF task.pc = "sync1" /\ SecondBatch(task.handler, loaded) # <<>>
  THEN [task |-> [task EXCEPT !.pc = "sync2",
                              !.queue = SecondBatch(task.handler, loaded),
                              !.text = loaded, !.syncs = task.syncs + 1],
        console |-> cons]
  ELSE tryCatch(task, cons, [ok |-> TRUE])

\* The host runs task t's whole batch and resolves the sync.
SyncOk(t) ==
  /\ InFlight(tasks[t])
  /\ LET st == RunBatch(tasks[t].queue, HostState(doc, sel),
                        Len(tasks[t].queue))
         r == Resume(tasks[t], console,
                     IF st.text = Unloaded THEN tasks[t].text ELSE st.text)
     IN  /\ st.ok
         /\ doc' = st.doc
         /\ sel' = st.sel
         /\ tasks' = [tasks EXCEPT ![t] = r.task]
         /\ console' = r.console
         /\ commits' = Append(commits, <<t, Stage(tasks[t])>>)
  /\ UNCHANGED <<uiVars, customStyles, doc0, sel0>>

\* The host runs the first k commands of task t's batch, command k+1 fails,
\* and the sync rejects: the error leaves the batch function, Word.run and
\* the handler, and reaches tryCatch's catch block.  Which command fails is
\* the host's choice (an object no longer valid, a missing style, any host
\* fault).  The handlers queue nothing that undoes a command, and nothing in
\* them makes a batch all-or-nothing, so what ran before the failing command
\* stays in the document.
SyncFail(t) ==
  /\ InFlight(tasks[t])
  /\ \E k \in 0..(Len(tasks[t].queue) - 1) :
       LET st == RunBatch(tasks[t].queue, HostState(doc, sel), k)
           r == tryCatch(tasks[t], console,
                         [ok |-> FALSE,
                          error |-> [task |-> t, stage |-> Stage(tasks[t])]])
       IN  /\ st.ok
           /\ doc' = st.doc
           /\ sel' = st.sel
           /\ tasks' = [tasks EXCEPT ![t] = r.task]
           /\ console' = r.console
  /\ UNCHANGED <<uiVars, customStyles, doc0, sel0, commits>>

-----------------------------------------------------------------------------
(* Sessions *)

\* The documents a session may start on, each with the selection the user
\* has made and the custom styles the document defines.
InitialDocuments ==
  { [doc |-> << Para(<<"Microsoft 365">>) >>,
     sel |-> [p |-> 1, from |-> 1, to |-> 1],
     styles |-> {}],
    [doc |-> << Para(<<"Office has ", "several", " versions">>),
                Para(<<"Microsoft 364">>) >>,
     sel |-> [p |-> 2, from |-> 1, to |-> 1],
     styles |-> {"MyCustomStyle"}],
    [doc |-> << Para(<<"Office has ", "several", " versions">>),
                Para(<<"We use ", "Microsoft 365", " daily">>) >>,
     sel |-> [p |-> 1, from |-> 2, to |-> 2],
     styles |-> {}],
    [doc |-> << Para(<<"We use ", "Microsoft 365", " daily">>),
                Para(<<>>) >>,
     sel |-> [p |-> 1, from |-> 2, to |-> 2],
     styles |-> {"MyCustomStyle"}] }

HostTypes == {"Word", "Excel", "null"}

Init ==
  /\ hostType \in HostTypes
  /\ ready = FALSE
  /\ onclick = [b \in Buttons |-> "null"]
  /\ sideloadMsgDisplay = ""
  /\ appBodyDisplay = "none"
  /\ bindCount = 0
  /\ \E d \in InitialDocuments :
       /\ doc = d.doc
       /\ sel = d.sel
       /\ customStyles = d.styles
       /\ doc0 = d.doc
       /\ sel0 = d.sel
  /\ tasks = <<>>
  /\ console = <<>>
  /\ commits = <<>>

Next ==
  \/ OnReady
  \/ \E b \in Buttons : Click(b)
  \/ \E t \in 1..Len(tasks) : SyncOk(t)
  \/ \E t \in 1..Len(tasks) : SyncFail(t)

Spec == Init /\ [][Next]_vars

TypeOK ==
  /\ ready \in BOOLEAN
  /\ bindCount \in 0..1
  /\ Len(tasks) <= MaxTasks
  /\ Len(doc) >= 1
  /\ sel.p \in 1..Len(doc)
  /\ sel.from >= 1 /\ sel.to <= Len(doc[sel.p].text) /\ sel.to >= sel.from - 1

-----------------------------------------------------------------------------
(* Properties *)

Tasks == 1..Len(tasks)

\* The console.error calls that report task t's error.
Logged(t) == {i \in 1..Len(console) : console[i].task = t}

Committed(t, stage) == \E i \in 1..Len(commits) : commits[i] = <<t, stage>>

AllBound == \A b \in Buttons : onclick[b] = HandlerOf(b)

NoneBound == \A b \in Buttons : onclick[b] = "null"

Revealed == sideloadMsgDisplay = "none" /\ appBodyDisplay = "flex"

StillLoading == sideloadMsgDisplay # "none" /\ appBodyDisplay # "flex"

LastText(d) == Flat(d[Len(d)].text)

\* The only activation so far is of handler h.
Alone(h) == Len(tasks) = 1 /\ tasks[1].handler = h

\* C1: whenever the callback given to tryCatch rejects (at its first or its
\* second context.sync), tryCatch still returns normally, nothing is thrown
\* to the caller, and the error is logged exactly once; a callback that
\* fulfils, or has not settled yet, has logged nothing.
C1_TryCatchSwallowsAndLogsOnce ==
  \A t \in Tasks :
    /\ tasks[t].pc # "threw"
    /\ tasks[t].outcome = "rejected" =>
         /\ tasks[t].pc = "returned"
         /\ Cardinality(Logged(t)) = 1
    /\ tasks[t].outcome = "fulfilled" =>
         /\ tasks[t].pc = "returned"
         /\ Logged(t) = {}
    /\ tasks[t].outcome = "pending" =>
         /\ InFlight(tasks[t])
         /\ Logged(t) = {}

C1_Witness ==
  \E t, u \in Tasks :
    /\ tasks[t].outcome = "rejected" /\ tasks[t].pc = "returned"
    /\ tasks[t].syncs = 2
    /\ console = << [task |-> t, stage |-> 2] >>
    /\ tasks[u].outcome = "fulfilled"

\* C2: once the readiness callback has run, the nine handlers are bound and
\* the UI is revealed exactly when the host type is Word; with any other
\* host type no button is ever bound and the loading placeholder stays up.
C2_BindIffWord ==
  /\ ready => (hostType = "Word" <=> (AllBound /\ Revealed))
  /\ hostType # "Word" => (NoneBound /\ StillLoading)
  /\ (AllBound /\ Revealed) \/ (NoneBound /\ StillLoading)

C2_Witness ==
  ready /\ hostType = "Excel" /\ NoneBound /\ StillLoading

\* C3: no button is bound and no handler has started before the host-ready
\* callback, and the binding block never runs a second time.
C3_BindOnceAfterReady ==
  /\ bindCount <= 1
  /\ bindCount = 1 => ready
  /\ (~NoneBound \/ tasks # <<>>) => (ready /\ bindCount = 1)
  /\ (ready /\ hostType = "Word") => bindCount = 1

C3_Witness ==
  /\ ready /\ bindCount = 1 /\ AllBound
  /\ Len(tasks) = MaxTasks
  /\ \A t \in Tasks : tasks[t].pc = "returned"

\* C4: when insertTextIntoRange alone has run to completion on a selection
\* whose text is t, the selection's text is t followed by " (M365)" and the
\* document has one more paragraph, the last, whose text is
\* "Original range: " followed by t followed by " (M365)"; for
\* t = "Microsoft 365" these are "Microsoft 365 (M365)" and
\* "Original range: Microsoft 365 (M365)".
C4_InsertTextIntoRange ==
  (Alone("insertTextIntoRange") /\ tasks[1].outcome = "fulfilled") =>
    LET t0 == RangeText(doc0, sel0)
    IN  /\ RangeText(doc, sel) = t0 \o " (M365)"
        /\ Len(doc) = Len(doc0) + 1
        /\ LastText(doc) = "Original range: " \o t0 \o " (M365)"
        /\ t0 = "Microsoft 365" =>
             /\ RangeText(doc, sel) = "Microsoft 365 (M365)"
             /\ LastText(doc) = "Original range: Microsoft 365 (M365)"

C4_Witness ==
  /\ Alone("insertTextIntoRange") /\ tasks[1].outcome = "fulfilled"
  /\ RangeText(doc0, sel0) = "Microsoft 365"
  /\ RangeText(doc, sel) = "Microsoft 365 (M365)"
  /\ LastText(doc) = "Original range: Microsoft 365 (M365)"

\* C5: when insertTextBeforeRange alone has run to completion on a selection
\* whose text is t, the selection's text is still t, "Office 2019, " stands
\* immediately before the selection (so the document reads
\* "Office 2019, Microsoft 364" for t = "Microsoft 364"), and the document
\* has one more paragraph, the last, which echoes t without the prefix.
C5_InsertTextBeforeRange ==
  (Alone("insertTextBeforeRange") /\ tasks[1].outcome = "fulfilled") =>
    LET t0 == RangeText(doc0, sel0)
        toks == doc[sel.p].text
    IN  /\ RangeText(doc, sel) = t0
        /\ sel.p = sel0.p /\ sel.from = sel0.from + 1
        /\ toks = InsertAt(doc0[sel0.p].text, sel0.from, <<"Office 2019, ">>)
        /\ Flat(SubSeq(toks, sel.from - 1, sel.to)) = "Office 2019, " \o t0
        /\ Len(doc) = Len(doc0) + 1
        /\ LastText(doc) = "Current text of original range: " \o t0
        /\ t0 = "Microsoft 364" =>
             Flat(SubSeq(toks, sel.from - 1, sel.to))
               = "Office 2019, Microsoft 364"

C5_Witness ==
  /\ Alone("insertTextBeforeRange") /\ tasks[1].outcome = "fulfilled"
  /\ RangeText(doc0, sel0) = "Microsoft 364"
  /\ RangeText(doc, sel) = "Microsoft 364"
  /\ Flat(doc[sel.p].text) = "Office 2019, Microsoft 364"
  /\ LastText(doc) = "Current text of original range: Microsoft 364"

\* The step in which task t's pending sync is settled.
Settles(t) == InFlight(tasks[t]) /\ tasks'[t] # tasks[t]

\* C6: in the step that settles changeFont's sync, if the document has at
\* least two paragraphs and the sync succeeds, the second paragraph's font
\* becomes ("Courier New", bold, 18) and nothing else changes; on a
\* single-paragraph document the sync fails; and whenever it fails no
\* paragraph's font (nor anything else in the document) changes.
C6_ChangeFont ==
  [][\A t \in Tasks :
       (tasks[t].handler = "changeFont" /\ Settles(t)) =>
         /\ tasks'[t].outcome = "fulfilled" =>
              /\ Len(doc) >= 2
              /\ doc' = [doc EXCEPT ![2].font = NewFont]
              /\ doc'[2].font.name = "Courier New"
              /\ doc'[2].font.bold = TRUE
              /\ doc'[2].font.size = 18
         /\ Len(doc) = 1 => tasks'[t].outcome = "rejected"
         /\ tasks'[t].outcome = "rejected" => doc' = doc
         /\ tasks'[t].outcome \in {"fulfilled", "rejected"}]_vars

C6_Witness ==
  /\ Alone("changeFont") /\ tasks[1].outcome = "rejected"
  /\ Len(doc0) = 1 /\ doc = doc0
  /\ Cardinality(Logged(1)) = 1

\* C7: every activation is one attempt: a handler is run once; when one of
\* its syncs fails the error is in tryCatch's log, nothing stays queued, the
\* task makes no further host call and is never run again, and the failing
\* step leaves the button bindings and the UI's visibility as they were.
C7_SingleAttempt ==
  /\ [](\A t \in Tasks :
          /\ tasks[t].runs = 1
          /\ tasks[t].outcome = "rejected" =>
               /\ tasks[t].queue = <<>>
               /\ \E i \in Logged(t) : console[i].stage = tasks[t].syncs
               /\ ~Committed(t, tasks[t].syncs))
  /\ [][\A t \in Tasks :
          /\ tasks[t].outcome = "rejected" => tasks'[t] = tasks[t]
          /\ (Settles(t) /\ tasks'[t].outcome = "rejected") =>
               /\ UNCHANGED <<onclick, sideloadMsgDisplay, appBodyDisplay>>
               /\ commits' = commits]_vars

C7_Witness ==
  \E t, u \in Tasks :
    /\ tasks[t].handler = "insertTextIntoRange"
    /\ tasks[t].outcome = "rejected" /\ tasks[t].syncs = 1
    /\ tasks[t].runs = 1 /\ tasks[t].queue = <<>>
    /\ tasks[u].handler = "insertHTML" /\ tasks[u].outcome = "rejected"
    /\ Len(console) = 2
    /\ AllBound /\ Revealed

\* The tasks whose handler has fulfilled.
Fulfilled == {t \in Tasks : tasks[t].outcome = "fulfilled"}

\* C8: once an insertParagraph has succeeded the body's first paragraph is
\* the literal; and when insertParagraph is the only handler activated, n
\* successes leave n more paragraphs, the first n all the literal, followed
\* by the original paragraphs unchanged and in order.
C8_InsertParagraph ==
  /\ (\E t \in Fulfilled : tasks[t].handler = "insertParagraph") =>
       Flat(doc[1].text) = ParagraphLiteral
  /\ (\A t \in Tasks : tasks[t].handler = "insertParagraph") =>
       LET n == Cardinality(Fulfilled)
       IN  /\ Len(doc) = Len(doc0) + n
           /\ \A i \in 1..n : doc[i] = Para(<<ParagraphLiteral>>)
           /\ SubSeq(doc, n + 1, Len(doc)) = doc0

C8_Witness ==
  /\ Len(tasks) = 2
  /\ \A t \in Tasks : tasks[t].handler = "insertParagraph"
  /\ Cardinality(Fulfilled) = 2
  /\ Len(doc) = Len(doc0) + 2
  /\ Flat(doc[1].text) = ParagraphLiteral
  /\ Flat(doc[2].text) = ParagraphLiteral

\* C9: an insertTextIntoRange suspended at its second sync has queued the
\* echo of the text its first sync loaded, and once it has fulfilled the
\* document holds a paragraph with exactly that text, whatever another
\* handler has done to the selection in between.
C9_EchoIsTextOfFirstSync ==
  \A t \in Tasks :
    tasks[t].handler = "insertTextIntoRange" =>
      /\ tasks[t].pc = "sync2" =>
           /\ tasks[t].text # Unloaded
           /\ tasks[t].queue = insertTextIntoRangeEcho(tasks[t].text)
      /\ tasks[t].outcome = "fulfilled" =>
           /\ tasks[t].text # Unloaded
           /\ \E i \in 1..Len(doc) :
                Flat(doc[i].text) = "Original range: " \o tasks[t].text

\* replaceText commits between the two syncs of insertTextIntoRange: both
\* were in flight together, and the echo is not the selection's text now.
C9_Witness ==
  \E a, b \in Tasks :
    /\ tasks[a].handler = "insertTextIntoRange"
    /\ tasks[b].handler = "replaceText"
    /\ commits = << <<a, 1>>, <<b, 1>>, <<a, 2>> >>
    /\ RangeText(doc, sel) = "many"
    /\ tasks[a].text = "Microsoft 365 (M365)"
    /\ LastText(doc) = "Original range: Microsoft 365 (M365)"

TwoSyncs == {"insertTextIntoRange", "insertTextBeforeRange"}

\* The document after the whole first batch of handler h ran on the
\* session's initial document.
AfterFirstBatch(h) ==
  RunBatch(FirstBatch(h), HostState(doc0, sel0), Len(FirstBatch(h))).doc

IsEcho(c) == c.op = "body.insertParagraph"

\* What C10 says of every two-sync handler but for a failed first sync.
C10_Common ==
  \A t \in Tasks :
    tasks[t].handler \in TwoSyncs =>
      /\ tasks[t].pc = "sync1" =>
           /\ tasks[t].text = Unloaded
           /\ \A i \in 1..Len(tasks[t].queue) : ~IsEcho(tasks[t].queue[i])
      /\ tasks[t].pc = "sync2" =>
           /\ Committed(t, 1)
           /\ tasks[t].text # Unloaded
           /\ tasks[t].queue = SecondBatch(tasks[t].handler, tasks[t].text)
      /\ (Len(tasks) = 1 /\ tasks[t].outcome = "rejected"
            /\ tasks[t].syncs = 2) =>
           doc = AfterFirstBatch(tasks[t].handler)

FirstSyncFailed(t) ==
  /\ Len(tasks) = 1
  /\ tasks[t].handler \in TwoSyncs
  /\ tasks[t].outcome = "rejected"
  /\ tasks[t].syncs = 1

\* C10 as stated: a failed first sync leaves neither the text mutation nor
\* the echo paragraph in the document.
C10_Original ==
  /\ C10_Common
  /\ \A t \in Tasks : FirstSyncFailed(t) => doc = doc0

\* C10, amended: the range text is read only after the first sync succeeded
\* and the echo is queued only after that read; a failed second sync leaves
\* the first sync's text mutation applied and adds no echo paragraph; a
\* failed first sync adds no echo paragraph and the handler queues nothing
\* more, so the document is as the host left it: with or without the text
\* mutation.
C10_NoRollback ==
  /\ C10_Common
  /\ \A t \in Tasks :
       FirstSyncFailed(t) =>
         /\ Len(doc) = Len(doc0)
         /\ doc \in {doc0, AfterFirstBatch(tasks[t].handler)}
         /\ tasks[t].text = Unloaded
         /\ tasks[t].queue = <<>>

C10_Witness ==
  /\ Alone("insertTextIntoRange")
  /\ tasks[1].outcome = "rejected" /\ tasks[1].syncs = 2
  /\ Committed(1, 1)
  /\ RangeText(doc, sel) = "Microsoft 365 (M365)"
  /\ Len(doc) = Len(doc0)

====
